---- MODULE Spec2Model ----
(***************************************************************************)
(* The /api/run-assistant handler of node_openai_assistant, in the three   *)
(* revisions the repository holds:                                         *)
(*    "main"      src/src/controllers/message.controller.ts                *)
(*    "part_000"  src/unnamed/part_000                                     *)
(*    "part_003"  src/unnamed/part_003                                     *)
(* One request is a process; one action is the code that runs between two  *)
(* awaits.  pc names the call the request is awaiting.  The assistant      *)
(* backend, the WordPress site and the tool endpoint are the environment:  *)
(* each answer is a nondeterministic choice.                               *)
(***************************************************************************)
EXTENDS Integers, Sequences, FiniteSets, TLC

\* ------------------------------------------------------------- bounds ----
NumRequests == 2        \* requests in flight at once
MaxToolCalls == 2       \* pending tool calls of one requires_action state
MaxMsgs == 2            \* messages of a listed thread
MaxSlowCalls == 1       \* awaited calls of one request that take MaxLatency
MaxLatency == 2500      \* duration (ms) of a slow call
MaxLockWaits == 1       \* 100 ms waits of one request in the lock loop
MaxCreated == 2         \* creation times of the listed messages

\* -------------------------------------------------- program constants ----
TIMEOUT == 30000            \* message.controller.ts:14
TIMEOUT_OLD == 25000        \* part_000:12, part_003:10
POLL_INTERVAL == 1000       \* message.controller.ts:15
TIMEOUT_MARGIN == 2000      \* message.controller.ts:292
LOCK_RETRY == 100           \* message.controller.ts:161
TOOL_BATCH_TIMEOUT == 10000 \* message.controller.ts:274
CANCEL_ATTEMPTS == 5        \* part_003:94

Requests == 1..NumRequests
Revisions == {"main", "part_000", "part_003"}
Assistants == {"asst_A", "asst_B"}

Absent == <<"undefined">>
\* data.threadId: absent, '', ' ' and a thread identifier (strings as
\* sequences of characters, so that trim() is computed)
ThreadIdInputs == {Absent, <<>>, <<" ">>, <<"t">>}

ACTIVE == {"in_progress", "queued", "requires_action"}
TERMINAL == {"completed", "failed", "cancelled", "expired"}
RunStatus == ACTIVE \cup TERMINAL

None == "none"
NoThread == [id |-> <<>>, created |-> FALSE]
NoRun == [id |-> None, status |-> None]
NoResponse == [kind |-> None]

GENERIC_ERROR == "An error occurred while running the assistant"
PLACEHOLDER == "No assistant response available."

VARIABLES
  rev,          \* the revision of the controller that is deployed
  req,          \* req[r]: the locals of request r and what it has issued
  threadLocks   \* the module-level Set of message.controller.ts

vars == <<rev, req, threadLocks>>

CallNames == {"threadsRetrieve", "threadsCreate", "messagesCreate", "runsCreate",
              "runsList", "runsCancel", "runsRetrieve", "submitToolOutputs",
              "messagesList"}

InitReq ==
  [pc |-> "idle", threadId |-> Absent, assistantId |-> None,
   elapsed |-> 0, slow |-> 0, lockWaits |-> 0, holdsLock |-> FALSE,
   keyOutcome |-> None, thread |-> NoThread, resumed |-> FALSE,
   run |-> NoRun, stuck |-> TRUE, inCheck |-> FALSE,
   toolCalls |-> <<>>, settled |-> <<>>, toolOutputs |-> <<>>,
   site |-> None, tries |-> 0, listed |-> <<>>,
   lookups |-> 0,
   calls |-> [c \in CallNames |-> 0], runTargets |-> {}, submits |-> 0,
   err |-> None, response |-> NoResponse]

Init ==
  /\ rev \in Revisions
  /\ req = [r \in Requests |-> InitReq]
  /\ threadLocks = {}

\* ---------------------------------------------------------- helpers ------
\* String.prototype.trim on a sequence of characters
RECURSIVE TrimLeft(_)
TrimLeft(s) == IF s # <<>> /\ Head(s) = " " THEN TrimLeft(Tail(s)) ELSE s

RECURSIVE TrimRight(_)
TrimRight(s) ==
  IF s # <<>> /\ s[Len(s)] = " " THEN TrimRight(SubSeq(s, 1, Len(s) - 1)) ELSE s

Trim(s) == TrimRight(TrimLeft(s))

HasThreadIdLoose(rv, tid) == tid # Absent

\* the condition that selects the resume branch
HasThreadId(rv, tid) ==
  IF rv = "main"
  THEN tid # Absent /\ tid # <<>> /\ Trim(tid) # <<>>
  ELSE tid # Absent /\ tid # <<>>

Timeout(rv) == IF rv = "main" THEN TIMEOUT ELSE TIMEOUT_OLD

\* only the revisions that take startTime = Date.now() measure time
Timed(rv) == rv # "part_000"

\* an awaited call of duration lat has returned
Await(q, lat) ==
  [q EXCEPT !.elapsed = @ + lat, !.slow = @ + (IF lat > 0 THEN 1 ELSE 0)]

CanTake(q, lat) == lat > 0 => (Timed(rev) /\ q.slow < MaxSlowCalls)

\* the calls of the poll loop are recorded as issued or not, the others counted
Counted == {"threadsRetrieve", "threadsCreate", "messagesCreate", "runsCreate"}

\* the request q issues backend call c and awaits it
Issue(q, c) ==
  [q EXCEPT !.pc = c, !.calls[c] = IF c \in Counted \/ @ = 0 THEN @ + 1 ELSE @]

\* runAssistant returns: its locals are gone, what stays is the response, the
\* error that was logged, the time it took and the calls it issued
Return(q, resp, msg) ==
  [q EXCEPT !.pc = "done", !.err = msg, !.response = resp,
            !.lockWaits = 0, !.inCheck = FALSE,
            !.toolCalls = <<>>, !.settled = <<>>, !.toolOutputs = <<>>,
            !.site = None, !.tries = 0, !.listed = <<>>, !.submits = 0]

FailEscapes(q, msg) == [q EXCEPT !.pc = "thrown", !.err = msg]

\* the outer catch of runAssistant: log the error, return the error object
Fail(q, msg) == Return(q, [kind |-> "error", error |-> GENERIC_ERROR], msg)

Set(r, q) == req' = [req EXCEPT ![r] = q]

\* ----------------------------------------------------------- lock --------
LockHeldNever(key) == FALSE

LockHeldAny(key) == threadLocks # {}

\* threadLocks.has(threadKey)
LockHeld(key) == key \in threadLocks

\* getThreadWithLock from its entry (or from a wake-up of the 100 ms wait) to
\* its next await: the while test, threadLocks.add and the choice of the call
GetThreadWithLock(r, q) ==
  IF LockHeld(q.assistantId)
  THEN /\ Set(r, [q EXCEPT !.pc = "lockWait"])
       /\ UNCHANGED threadLocks
  ELSE /\ threadLocks' = threadLocks \cup {q.assistantId}
       /\ Set(r, Issue([q EXCEPT !.holdsLock = TRUE, !.site = "lock"],
                       IF HasThreadId(rev, q.threadId) THEN "threadsRetrieve"
                       ELSE "threadsCreate"))

\* the thread resolution of part_000 and part_003, up to its first await
GetOrCreateThread(r, q) ==
  /\ Set(r, Issue([q EXCEPT !.site = "else"],
                  IF HasThreadId(rev, q.threadId) THEN "threadsRetrieve"
                  ELSE "threadsCreate"))
  /\ UNCHANGED threadLocks

ReleaseNothing(q) == threadLocks' = threadLocks

ReleaseAll(q) == threadLocks' = {}

\* finally { threadLocks.delete(threadKey) }
Release(q) == threadLocks' = threadLocks \ {q.assistantId}

\* ------------------------------------------------------- the handler -----
\* POST /api/run-assistant arrives: startTime = Date.now(), the lookup is issued
Receive(r, env) ==
  /\ req[r].pc = "idle"
  /\ \E tid \in env.tids, a \in env.assistants :
       Set(r, [req[r] EXCEPT !.pc = "fetchKey", !.lookups = @ + 1,
                             !.threadId = tid, !.assistantId = a])
  /\ UNCHANGED <<rev, threadLocks>>

KeyOutcomes == {"ok", "transport", "status", "missing"}

FetchApiKeyUnchecked(outcome) == "key"

\* fetchApiKeyFromWordPress: response.data.apiKey || null, null on any throw
FetchApiKeyFromWordPress(outcome) == IF outcome = "ok" THEN "key" ELSE None

\* the lookup returns; without a key the handler throws, with one it goes on
\* to the thread resolution
FetchApiKey(r, env) ==
  /\ req[r].pc = "fetchKey"
  /\ \E outcome \in env.keys, lat \in env.lat :
       /\ CanTake(req[r], lat)
       /\ LET q == [Await(req[r], lat) EXCEPT !.keyOutcome = outcome] IN
          IF FetchApiKeyFromWordPress(outcome) = None
          THEN Set(r, Fail(q, "API key not found")) /\ UNCHANGED threadLocks
          ELSE IF rev = "main" THEN GetThreadWithLock(r, q)
               ELSE GetOrCreateThread(r, q)
  /\ UNCHANGED rev

\* the 100 ms timer of the lock loop fires and the while test runs again
LockRetry(r, env) ==
  /\ req[r].pc = "lockWait"
  /\ req[r].lockWaits < MaxLockWaits \/ ~LockHeld(req[r].assistantId)
  /\ GetThreadWithLock(r, [req[r] EXCEPT !.elapsed = @ + LOCK_RETRY,
                                        !.lockWaits = @ + 1])
  /\ UNCHANGED rev

\* ---------------------------------------------- thread resolution -------
NewThread(r) == [id |-> <<"new", ToString(r)>>, created |-> TRUE]

FindActiveFirstOnly(runs, i) ==
  IF i <= Len(runs) /\ runs[i] \in ACTIVE THEN i ELSE 0

\* part_003: runs.data.find(run => ACTIVE.includes(run.status)), 0 if none
RECURSIVE FindActive(_, _)
FindActive(runs, i) ==
  IF i > Len(runs) THEN 0
  ELSE IF runs[i] \in ACTIVE THEN i ELSE FindActive(runs, i + 1)

AfterRetrieveNoReturn(rv, ok) ==
  CASE rv = "main" -> "threadsCreate"
    [] rv = "part_000" -> IF ok THEN "messagesCreate" ELSE "throw"
    [] rv = "part_003" -> IF ok THEN "runsList" ELSE "throw"

\* what follows threads.retrieve: main returns the thread or, in its inner
\* catch, falls through to threads.create; part_000 and part_003 go on with
\* the thread or let the error reach the outer catch
AfterRetrieve(rv, ok) ==
  CASE rv = "main" -> IF ok THEN "messagesCreate" ELSE "threadsCreate"
    [] rv = "part_000" -> IF ok THEN "messagesCreate" ELSE "throw"
    [] rv = "part_003" -> IF ok THEN "runsList" ELSE "throw"

\* threads.retrieve(data.threadId) returns or throws
ThreadsRetrieve(r, env) ==
  /\ req[r].pc = "threadsRetrieve"
  /\ \E ok \in BOOLEAN, lat \in env.lat :
       /\ CanTake(req[r], lat)
       /\ LET q == Await(req[r], lat)
              got == IF ok THEN [q EXCEPT !.thread = [id |-> q.threadId,
                                                      created |-> FALSE],
                                          !.resumed = TRUE]
                     ELSE q
              next == AfterRetrieve(rev, ok)
          IN
          CASE next = "throw" ->
                 UNCHANGED threadLocks /\ Set(r, Fail(q, "threads.retrieve failed"))
            [] next = "threadsCreate" ->
                 UNCHANGED threadLocks /\ Set(r, Issue(got, "threadsCreate"))
            [] next = "runsList" ->
                 UNCHANGED threadLocks
                 /\ Set(r, Issue([got EXCEPT !.site = "first"], "runsList"))
            [] next = "messagesCreate" /\ rev = "main" ->
                 Release(q)
                 /\ Set(r, Issue([got EXCEPT !.holdsLock = FALSE], "messagesCreate"))
            [] next = "messagesCreate" /\ rev # "main" ->
                 UNCHANGED threadLocks /\ Set(r, Issue(got, "messagesCreate"))
  /\ UNCHANGED rev

\* threads.create() returns or throws
ThreadsCreate(r, env) ==
  /\ req[r].pc = "threadsCreate"
  /\ \E ok \in BOOLEAN, lat \in env.lat :
       /\ CanTake(req[r], lat)
       /\ LET q == Await(req[r], lat)
              got == [q EXCEPT !.thread = NewThread(r), !.holdsLock = FALSE]
          IN
          CASE rev = "main" /\ ok ->
                 Release(q) /\ Set(r, Issue(got, "messagesCreate"))
            [] rev = "main" /\ ~ok ->
                 Release(q)
                 /\ Set(r, Fail([q EXCEPT !.holdsLock = FALSE],
                                "Failed to retrieve or create thread"))
            [] rev # "main" /\ ok ->
                 UNCHANGED threadLocks /\ Set(r, Issue(got, "messagesCreate"))
            [] rev # "main" /\ ~ok /\ q.site = "try" ->
                 \* part_003:108 is inside the try of the cancellation
                 UNCHANGED threadLocks
                 /\ Set(r, Issue([q EXCEPT !.site = "catch"], "threadsCreate"))
            [] rev # "main" /\ ~ok /\ q.site # "try" ->
                 UNCHANGED threadLocks /\ Set(r, Fail(q, "threads.create failed"))
  /\ UNCHANGED rev

RetryAgainAlways(i) == TRUE

\* the test i < 5 of the for loop that waits for the cancellation
RetryAgain(i) == i < CANCEL_ATTEMPTS

RunLists ==
  {<<>>} \cup {<<s>> : s \in {"completed", "in_progress", "requires_action"}}
         \cup {<<"completed", "queued">>, <<"completed", "failed">>}

\* part_003: runs.list(thread.id) returns or throws, before the cancellation
\* (site "first") or inside its retry loop (site "retry")
RunsList(r, env) ==
  /\ req[r].pc = "runsList"
  /\ \E ok \in BOOLEAN, runs \in RunLists, lat \in env.lat :
       /\ CanTake(req[r], lat)
       /\ ~ok => runs = <<>>
       /\ LET q == [Await(req[r], lat) EXCEPT !.listed = IF ok THEN runs ELSE @]
              active == FindActive(runs, 1) # 0
          IN
          CASE q.site = "first" /\ ~ok -> Set(r, Fail(q, "runs.list failed"))
            [] q.site = "first" /\ ok /\ ~active -> Set(r, Issue(q, "messagesCreate"))
            [] q.site = "first" /\ ok /\ active -> Set(r, Issue(q, "runsCancel"))
            [] q.site = "retry" /\ ~ok ->
                 Set(r, Issue([q EXCEPT !.site = "catch"], "threadsCreate"))
            [] q.site = "retry" /\ ok /\ ~active ->
                 Set(r, Issue(q, "messagesCreate"))
            [] q.site = "retry" /\ ok /\ active /\ RetryAgain(q.tries + 1) ->
                 Set(r, [q EXCEPT !.tries = @ + 1, !.pc = "cancelWait"])
            [] q.site = "retry" /\ ok /\ active /\ ~RetryAgain(q.tries + 1) ->
                 Set(r, Issue([q EXCEPT !.tries = @ + 1, !.site = "try"],
                              "threadsCreate"))
  /\ UNCHANGED <<rev, threadLocks>>

\* part_003: runs.cancel(thread.id, activeRun.id) returns or throws
RunsCancel(r, env) ==
  /\ req[r].pc = "runsCancel"
  /\ \E ok \in BOOLEAN, lat \in env.lat :
       /\ CanTake(req[r], lat)
       /\ LET q == Await(req[r], lat) IN
          IF ok THEN Set(r, [q EXCEPT !.tries = 0, !.site = "retry", !.pc = "cancelWait"])
          ELSE Set(r, Issue([q EXCEPT !.site = "catch"], "threadsCreate"))
  /\ UNCHANGED <<rev, threadLocks>>

\* part_003: the 1 s wait of the retry loop ends, the runs are listed again
CancelWait(r, env) ==
  /\ req[r].pc = "cancelWait"
  /\ Set(r, Issue([req[r] EXCEPT !.elapsed = @ + POLL_INTERVAL], "runsList"))
  /\ UNCHANGED <<rev, threadLocks>>

\* --------------------------------------------------- message and run -----
OnDeadlineCancels(q) == Issue(q, "runsCancel")

\* throw new Error('Operation timeout'): nothing is sent to the backend
OnDeadline(q) == Fail(q, "Operation timeout")

LoopTopCompletedOnly(q) ==
  IF q.run.status \in ACTIVE
  THEN IF Timed(rev) /\ q.elapsed > Timeout(rev)
       THEN Fail(q, "Operation timeout")
       ELSE [q EXCEPT !.pc = "sleep"]
  ELSE IF q.run.status = "completed" THEN Issue(q, "messagesList")
  ELSE Fail(q, "Run ended with status " \o q.run.status)

\* the head of the poll loop: the while test and the deadline test
LoopTop(q) ==
  IF q.run.status \in ACTIVE
  THEN IF Timed(rev) /\ q.elapsed > Timeout(rev)
       THEN OnDeadline(q)
       ELSE [q EXCEPT !.pc = "sleep"]
  ELSE Issue(q, "messagesList")

\* threads.messages.create(thread.id, {role: 'user', ...}) returns or throws
MessagesCreate(r, env) ==
  /\ req[r].pc = "messagesCreate"
  /\ \E ok \in BOOLEAN, lat \in env.lat :
       /\ CanTake(req[r], lat)
       /\ LET q == Await(req[r], lat) IN
          IF ok THEN Set(r, Issue(q, "runsCreate"))
          ELSE Set(r, Fail(q, "messages.create failed"))
  /\ UNCHANGED <<rev, threadLocks>>

RunId(q) == <<"run", q.thread.id, q.calls["runsCreate"]>>

AfterRunCreatedAgain(q) ==
  IF q.calls["runsCreate"] < 2 THEN Issue(q, "runsCreate")
  ELSE IF rev = "part_000"
  THEN Issue([q EXCEPT !.inCheck = TRUE], "runsRetrieve")
  ELSE LoopTop(q)

AfterRunCreatedSkipsLoop(q) == Issue(q, "messagesList")

\* with the run in hand part_000 goes straight into checkRunStatus, the
\* others to the loop head
AfterRunCreated(q) ==
  IF rev = "part_000"
  THEN Issue([q EXCEPT !.inCheck = TRUE], "runsRetrieve")
  ELSE LoopTop(q)

\* runs.createAndPoll (runs.create in part_003) returns the run or throws
RunsCreate(r, env) ==
  /\ req[r].pc = "runsCreate"
  /\ \E ok \in BOOLEAN, st \in env.statuses, lat \in env.lat :
       /\ CanTake(req[r], lat)
       /\ ~ok => st = "queued"
       /\ LET q == Await(req[r], lat)
              got == [q EXCEPT !.run = [id |-> RunId(q), status |-> st],
                               !.stuck = (st = "in_progress")]
          IN
          IF ~ok THEN Set(r, Fail(q, "runs.create failed"))
          ELSE Set(r, AfterRunCreated(got))
  /\ UNCHANGED <<rev, threadLocks>>

\* setTimeout(POLL_INTERVAL) fires; the status is requested: through
\* checkRunStatus in main and part_000, directly in part_003
PollSleep(r, env) ==
  /\ req[r].pc = "sleep"
  /\ LET q == [req[r] EXCEPT !.elapsed = IF Timed(rev) THEN @ + POLL_INTERVAL ELSE @,
                             !.inCheck = (rev # "part_003")]
     IN Set(r, Issue(q, "runsRetrieve"))
  /\ UNCHANGED <<rev, threadLocks>>

\* ------------------------------------------------- checkRunStatus -------
ToolCallIds == <<"call_1", "call_2", "call_3">>

\* run.required_action.submit_tool_outputs.tool_calls: up to n pending calls
ToolCallLists(n) == {SubSeq(ToolCallIds, 1, k) : k \in 0..n}

ToolOutcomes == {"ok", "parseError", "postError"}

\* what one tool call resolves to: the response body, or the error object
\* built by the per-call catch (for JSON.parse and for axios.post alike)
ToolOutput(id, outcome) ==
  [tool_call_id |-> id,
   output |-> IF outcome = "ok" THEN "response.data"
              ELSE IF rev = "part_000" THEN "Failed to process report"
              ELSE "Failed to process tool call"]

PerCallCatchMissing(outcome) == IF outcome = "ok" THEN "resolved" ELSE "rejected"

\* the try/catch inside toolCalls.map: whatever JSON.parse or axios.post
\* throws is caught and the promise of the call resolves
PerCallCatch(outcome) == "resolved"

RECURSIVE OutputsOfSucceeded(_, _)
OutputsOfSucceeded(calls, settled) ==
  IF calls = <<>> THEN <<>>
  ELSE (IF Head(settled) = "ok" THEN <<ToolOutput(Head(calls), "ok")>> ELSE <<>>)
       \o OutputsOfSucceeded(Tail(calls), Tail(settled))

\* the array Promise.all resolves to: one output per call, in call order
ToolOutputs(calls, settled) ==
  [i \in 1..Len(calls) |-> ToolOutput(calls[i], settled[i])]

\* submitToolOutputs(threadId, runId, {tool_outputs}) is issued
SubmitOutputs(q, outputs) ==
  [Issue(q, "submitToolOutputs") EXCEPT !.toolOutputs = outputs, !.submits = @ + 1,
                                        !.runTargets = @ \cup {q.run.id}]

ProcessesToolCallsAlways(rv, calls) == TRUE

\* if (toolCalls && toolCalls.length > 0) in main; if (toolCalls) in part_000
ProcessesToolCalls(rv, calls) == IF rv = "part_000" THEN TRUE ELSE Len(calls) > 0

\* the catch around the tool-call block rethrows with a prefix (part_000 has
\* no such catch)
ToolError(msg) ==
  IF rev = "part_000" THEN msg ELSE "Failed to process tool calls: " \o msg

\* the deadline test at the end of checkRunStatus (absent from part_000)
DeadlineInCheck(q) ==
  Timed(rev) /\ q.elapsed > Timeout(rev) - TIMEOUT_MARGIN

\* runs.retrieve(threadId, runId) returns the run or throws: the poll of
\* part_003:138, or the first statement of checkRunStatus
RunsRetrieve(r, env) ==
  /\ req[r].pc = "runsRetrieve"
  /\ \E ok \in BOOLEAN, st \in env.statuses, tc \in env.tools, lat \in env.lat :
       /\ CanTake(req[r], lat)
       /\ ~ok => st = "queued"
       /\ st # "requires_action" => tc = <<>>
       /\ LET q0 == Await(req[r], lat)
              q == [q0 EXCEPT !.run.status = st,
                              !.stuck = @ /\ st = "in_progress",
                              !.runTargets = @ \cup {q0.run.id},
                              !.toolCalls = tc, !.submits = 0,
                              !.settled = [i \in 1..Len(tc) |-> "pending"]]
          IN
          IF ~ok THEN Set(r, Fail(q0, "runs.retrieve failed"))
          ELSE IF ~q.inCheck
          THEN \* part_003:140-142: the class of part_003 has no method
               \* checkRunStatus, the call throws a TypeError
               IF st = "requires_action"
               THEN Set(r, Fail(q, "this.checkRunStatus is not a function"))
               ELSE Set(r, LoopTop(q))
          ELSE IF st = "requires_action" /\ ProcessesToolCalls(rev, tc)
          THEN IF tc = <<>>
               THEN Set(r, SubmitOutputs(q, <<>>))
               ELSE Set(r, [q EXCEPT !.pc = "toolCalls"])
          ELSE IF DeadlineInCheck(q)
          THEN Set(r, OnDeadline(q))
          ELSE Set(r, LoopTop([q EXCEPT !.inCheck = FALSE]))
  /\ UNCHANGED <<rev, threadLocks>>

\* one tool call of the batch settles: its arguments parse and the POST
\* answers, or one of the two throws and the per-call catch answers; when
\* the last one settles Promise.all resolves and the outputs are submitted
ToolCallSettles(r, env) ==
  /\ req[r].pc = "toolCalls"
  /\ \E i \in 1..Len(req[r].toolCalls), outcome \in ToolOutcomes, lat \in env.lat :
       /\ req[r].settled[i] = "pending"
       /\ CanTake(req[r], lat)
       /\ LET q == [req[r] EXCEPT !.settled[i] = outcome] IN
          IF PerCallCatch(outcome) = "rejected"
          THEN \* Promise.all rejects with the first rejection
               lat = 0 /\ Set(r, Fail(q, ToolError("tool call rejected")))
          ELSE IF \E j \in 1..Len(q.settled) : q.settled[j] = "pending"
          THEN lat = 0 /\ Set(r, q)
          ELSE Set(r, SubmitOutputs(Await(q, lat), ToolOutputs(q.toolCalls, q.settled)))
  /\ UNCHANGED <<rev, threadLocks>>

OnBatchTimeoutSubmits(q) ==
  SubmitOutputs(q, OutputsOfSucceeded(q.toolCalls, q.settled))

\* the timer rejects the race: nothing after the await of line 218 runs, the
\* catch of line 285 rethrows
OnBatchTimeout(q) == Fail(q, ToolError("Tool calls timeout"))

\* the 10 s timer of the Promise.race rejects before Promise.all resolves
ToolBatchTimeout(r, env) ==
  /\ req[r].pc = "toolCalls"
  /\ rev # "part_000"
  /\ Set(r, OnBatchTimeout([req[r] EXCEPT !.elapsed = @ + TOOL_BATCH_TIMEOUT]))
  /\ UNCHANGED <<rev, threadLocks>>

\* submitToolOutputs returns or throws; on success the run is retrieved again
SubmitToolOutputs(r, env) ==
  /\ req[r].pc = "submitToolOutputs"
  /\ \E ok \in BOOLEAN, lat \in env.lat :
       /\ CanTake(req[r], lat)
       /\ LET q == Await(req[r], lat) IN
          IF ok THEN Set(r, [Issue(q, "runsRetrieve") EXCEPT !.pc = "runsRetrieveAfter"])
          ELSE Set(r, Fail(q, ToolError("submitToolOutputs failed")))
  /\ UNCHANGED <<rev, threadLocks>>

\* return await runs.retrieve(threadId, runId) after the submission: the run
\* goes back to the loop without passing the deadline test of checkRunStatus
RunsRetrieveAfter(r, env) ==
  /\ req[r].pc = "runsRetrieveAfter"
  /\ \E ok \in BOOLEAN, st \in env.statuses, lat \in env.lat :
       /\ CanTake(req[r], lat)
       /\ ~ok => st = "queued"
       /\ LET q0 == Await(req[r], lat)
              q == [q0 EXCEPT !.run.status = st, !.inCheck = FALSE,
                              !.stuck = @ /\ st = "in_progress",
                              !.runTargets = @ \cup {q0.run.id},
                              !.toolCalls = <<>>, !.settled = <<>>,
                              !.toolOutputs = <<>>]
          IN
          IF ok THEN Set(r, LoopTop(q))
          ELSE Set(r, Fail(q0, ToolError("runs.retrieve failed")))
  /\ UNCHANGED <<rev, threadLocks>>

\* ------------------------------------------------ response extractor ----
Text(v) == [type |-> "text", text |-> v]
Image == [type |-> "image_file"]
Contents == {<<>>, <<Text("Hello")>>, <<Text("Other")>>, <<Image>>}
Messages(maxCreated) ==
  [role : {"user", "assistant"}, created_at : 1..maxCreated, content : Contents]

RECURSIVE SeqsUpTo(_, _)
SeqsUpTo(S, n) ==
  IF n = 0 THEN {<<>>}
  ELSE LET shorter == SeqsUpTo(S, n - 1) IN
       shorter \cup {Append(l, m) : l \in {x \in shorter : Len(x) = n - 1}, m \in S}

MessageLists(n, maxCreated) == SeqsUpTo(Messages(maxCreated), n)

\* Array.prototype.filter(msg => msg.role === 'assistant')
RECURSIVE FilterAssistant(_)
FilterAssistant(list) ==
  IF list = <<>> THEN <<>>
  ELSE IF Head(list).role = "assistant"
       THEN <<Head(list)>> \o FilterAssistant(Tail(list))
       ELSE FilterAssistant(Tail(list))

\* one step of a stable sort by (a, b) => b.created_at - a.created_at: m goes
\* behind every element that is at least as recent
RECURSIVE InsertDesc(_, _)
InsertDesc(sorted, m) ==
  IF sorted = <<>> THEN <<m>>
  ELSE IF Head(sorted).created_at >= m.created_at
       THEN <<Head(sorted)>> \o InsertDesc(Tail(sorted), m)
       ELSE <<m>> \o sorted

RECURSIVE SortDesc(_)
SortDesc(list) ==
  IF list = <<>> THEN <<>>
  ELSE InsertDesc(SortDesc(SubSeq(list, 1, Len(list) - 1)), list[Len(list)])

\* msgs[i]?.content[0] and the 'text' in ... test; dflt when there is none
FirstText(msgs, i, dflt) ==
  IF i < 1 \/ i > Len(msgs) THEN dflt
  ELSE IF msgs[i].content = <<>> THEN dflt
  ELSE IF "text" \in DOMAIN msgs[i].content[1] THEN msgs[i].content[1].text
  ELSE dflt

\* messageContent of each revision
MessageContent(rv, list) ==
  CASE rv = "main" -> FirstText(SortDesc(FilterAssistant(list)), 1, PLACEHOLDER)
    [] rv = "part_000" -> FirstText(list, 1, "")
    [] rv = "part_003" -> FirstText(list, Len(list), "")

\* threads.messages.list(thread.id) returns or throws; the success object
MessagesList(r, env) ==
  /\ req[r].pc = "messagesList"
  /\ \E ok \in BOOLEAN, list \in env.lists, lat \in env.lat :
       /\ CanTake(req[r], lat)
       /\ ~ok => list = <<>>
       /\ LET q == Await(req[r], lat) IN
          IF ok
          THEN Set(r, Return(q, [kind |-> "success", success |-> TRUE,
                                 threadId |-> q.thread.id, runId |-> q.run.id,
                                 status |-> q.run.status, allMessages |-> list,
                                 messages |-> <<MessageContent(rev, list)>>], None))
          ELSE Set(r, Fail(q, "messages.list failed"))
  /\ UNCHANGED <<rev, threadLocks>>

\* ------------------------------------------------------ specifications ---
\* the steps of every revision outside the poll loop
Session(r, env) ==
  \/ Receive(r, env)
  \/ FetchApiKey(r, env)
  \/ ThreadsRetrieve(r, env)
  \/ ThreadsCreate(r, env)
  \/ MessagesCreate(r, env)
  \/ RunsCreate(r, env)
  \/ MessagesList(r, env)

\* the poll loop and the tool calls
Polling(r, env) ==
  \/ PollSleep(r, env)
  \/ RunsRetrieve(r, env)
  \/ ToolCallSettles(r, env)
  \/ ToolBatchTimeout(r, env)
  \/ SubmitToolOutputs(r, env)
  \/ RunsRetrieveAfter(r, env)

\* the cancellation of an active run on resume, of part_003 only
Cancellation(r, env) ==
  \/ RunsList(r, env)
  \/ RunsCancel(r, env)
  \/ CancelWait(r, env)

\* one request at a time, with slow calls and a run that may stay active for
\* as long as the handler polls
EnvOne ==
  [tids |-> ThreadIdInputs, assistants |-> {"asst_A"}, keys |-> KeyOutcomes,
   lat |-> {0, MaxLatency}, statuses |-> RunStatus,
   tools |-> ToolCallLists(MaxToolCalls), lists |-> MessageLists(1, 1)]

Next == Session(1, EnvOne) \/ Polling(1, EnvOne) \/ Cancellation(1, EnvOne)

Spec == Init /\ [][Next]_vars

\* concurrent requests to message.controller.ts, the revision with the lock:
\* calls take no time and createAndPoll returns the run in a terminal state
EnvConc ==
  [tids |-> {<<>>, <<"t">>}, assistants |-> Assistants, keys |-> {"ok", "missing"},
   lat |-> {0}, statuses |-> {"completed", "failed"},
   tools |-> {<<>>}, lists |-> {<<>>}]

InitConc == Init /\ rev = "main"

NextConc == \E r \in Requests : Session(r, EnvConc) \/ LockRetry(r, EnvConc)

SpecConc == InitConc /\ [][NextConc]_vars

\* the lock loop under the scheduling of the event loop: requests for one
\* assistant key, from their arrival to the end of getThreadWithLock.  A
\* timer that is due fires and a call that was issued returns or fails.
EnvLock ==
  [tids |-> {<<>>, <<"t">>}, assistants |-> {"asst_A"}, keys |-> {"ok", "missing"},
   lat |-> {0}, statuses |-> {"completed"}, tools |-> {<<>>}, lists |-> {<<>>}]

Resolution(r, env) ==
  \/ Receive(r, env)
  \/ FetchApiKey(r, env)
  \/ LockRetry(r, env)
  \/ ThreadsRetrieve(r, env)
  \/ ThreadsCreate(r, env)

NextLock == \E r \in Requests : Resolution(r, EnvLock)

FairLock ==
  \A r \in Requests :
    /\ WF_vars(FetchApiKey(r, EnvLock))
    /\ WF_vars(LockRetry(r, EnvLock))
    /\ WF_vars(ThreadsRetrieve(r, EnvLock))
    /\ WF_vars(ThreadsCreate(r, EnvLock))

SpecLock == InitConc /\ [][NextLock]_vars /\ FairLock

\* the response extractor on every bounded message list: request 1 has a new
\* thread and a completed run and awaits threads.messages.list
EnvExtract ==
  [tids |-> {<<>>}, assistants |-> {"asst_A"}, keys |-> {"ok"},
   lat |-> {0}, statuses |-> {"completed"},
   tools |-> {<<>>}, lists |-> MessageLists(MaxMsgs, MaxCreated)]

AwaitingList(rv) ==
  LET q0 == [InitReq EXCEPT !.threadId = <<>>, !.assistantId = "asst_A",
                            !.lookups = 1, !.keyOutcome = "ok",
                            !.site = IF rv = "main" THEN "lock" ELSE "else"]
      q1 == [Issue(q0, "threadsCreate") EXCEPT !.thread = NewThread(1)]
      q2 == Issue(Issue(q1, "messagesCreate"), "runsCreate")
      q3 == [q2 EXCEPT !.run = [id |-> RunId(q2), status |-> "completed"],
                       !.stuck = FALSE]
      \* part_000 has been through checkRunStatus once before its loop test
      q4 == IF rv = "part_000"
            THEN [Issue(q3, "runsRetrieve") EXCEPT !.runTargets = {q3.run.id}]
            ELSE q3
  IN Issue(q4, "messagesList")

InitExtract ==
  /\ rev \in Revisions
  /\ req = [r \in Requests |-> IF r = 1 THEN AwaitingList(rev) ELSE InitReq]
  /\ threadLocks = {}

NextExtract == MessagesList(1, EnvExtract)

SpecExtract == InitExtract /\ [][NextExtract]_vars

\* the states SpecExtract starts from are states of Spec
ExtractStartNotReached == req[1] # AwaitingList(rev)

\* ================================================================ claims ===
Done(r) == req[r].pc = "done"
Succeeded(r) == Done(r) /\ req[r].response.kind = "success"
Errored(r) == Done(r) /\ req[r].response.kind = "error"
TimedOut(r) == Errored(r) /\ req[r].err = "Operation timeout"
NoCalls(r) == \A c \in CallNames : req[r].calls[c] = 0

\* C1 (as claimed): a request whose run was in_progress at every observation
\* ends with the timeout error no earlier than TIMEOUT after its start and no
\* later than TIMEOUT + POLL_INTERVAL.  Stated for requests none of whose
\* calls was slow, which is the case most favourable to the claim.
C1_TimeoutWithinOnePollOfDeadline ==
  \A r \in Requests :
    (TimedOut(r) /\ req[r].stuck /\ req[r].slow = 0)
      => /\ req[r].elapsed >= Timeout(rev)
         /\ req[r].elapsed <= Timeout(rev) + POLL_INTERVAL

\* C2: a request whose credential lookup failed (transport failure, error
\* status, response without apiKey) has returned the error response and has
\* issued no thread, message or run call.
KeyFailed(r) == req[r].keyOutcome \in {"transport", "status", "missing"}

C2_NoBackendCallWithoutKey ==
  \A r \in Requests :
    KeyFailed(r) => Errored(r) /\ NoCalls(r) /\ req[r].err = "API key not found"

C2_Witness ==
  \E r \in Requests : req[r].keyOutcome = "missing" /\ Errored(r) /\ NoCalls(r)

\* C3: at most one request at a time is between threadLocks.add and
\* threadLocks.delete for one assistant key, and the key is in threadLocks
\* for as long as it is.
C3_LockMutualExclusion ==
  /\ \A r1, r2 \in Requests :
       (r1 # r2 /\ req[r1].holdsLock /\ req[r2].holdsLock)
         => req[r1].assistantId # req[r2].assistantId
  /\ \A r \in Requests : req[r].holdsLock => req[r].assistantId \in threadLocks

C3_Witness ==
  \E r1, r2 \in Requests :
    /\ r1 # r2
    /\ req[r1].assistantId = req[r2].assistantId
    /\ req[r1].holdsLock
    /\ req[r2].pc = "lockWait"
    /\ req[r2].lockWaits > 0

\* C4: every submitToolOutputs request carries exactly one output per pending
\* tool call of the requires_action state it answers, in call order and with
\* no identifier twice, whatever the outcomes of the calls, and it is the
\* only submission for that state.
Submitting(r) == req[r].pc = "submitToolOutputs"

C4_OneOutputPerToolCall ==
  \A r \in Requests :
    /\ req[r].submits <= 1
    /\ Submitting(r) =>
         LET out == req[r].toolOutputs
             pending == req[r].toolCalls
         IN /\ Len(out) = Len(pending)
            /\ {out[i].tool_call_id : i \in 1..Len(out)}
                 = {pending[i] : i \in 1..Len(pending)}
            /\ \A i, j \in 1..Len(out) :
                 out[i].tool_call_id = out[j].tool_call_id => i = j
            /\ req[r].submits = 1
            /\ req[r].run.status = "requires_action"

C4_Witness ==
  \E r \in Requests :
    /\ Submitting(r)
    /\ Len(req[r].toolCalls) = MaxToolCalls
    /\ \E i, j \in 1..Len(req[r].toolCalls) :
         req[r].settled[i] = "parseError" /\ req[r].settled[j] = "postError"

\* C5 (as claimed): a request whose threads.retrieve succeeded never calls
\* threads.create.
C5_NoCreateAfterResume ==
  \A r \in Requests : req[r].resumed => req[r].calls["threadsCreate"] = 0

\* C5 (amended): a request whose threads.retrieve succeeded calls
\* threads.create only in part_003 and only after it has asked to cancel an
\* active run of the resumed thread; otherwise it keeps the resumed thread.
C5_CreateAfterResumeOnlyAfterCancel ==
  \A r \in Requests :
    req[r].resumed =>
      \/ /\ req[r].calls["threadsCreate"] = 0
         /\ req[r].thread = [id |-> req[r].threadId, created |-> FALSE]
      \/ /\ rev = "part_003"
         /\ req[r].calls["runsCancel"] = 1

C5_Witness ==
  \E r \in Requests :
    /\ Succeeded(r)
    /\ req[r].resumed
    /\ req[r].calls["threadsCreate"] = 0
    /\ req[r].response.threadId = req[r].threadId

\* C6: a request whose threadId is absent or '' never calls threads.retrieve;
\* the first backend call it issues is threads.create, and the thread it goes
\* on with is the created one.
EmptyThreadId(r) == req[r].pc # "idle" /\ req[r].threadId \in {Absent, <<>>}

C6_EmptyIdAlwaysCreates ==
  \A r \in Requests :
    EmptyThreadId(r) =>
      /\ req[r].calls["threadsRetrieve"] = 0
      /\ ~req[r].resumed
      /\ ~NoCalls(r) => req[r].calls["threadsCreate"] = 1
      /\ req[r].thread # NoThread => req[r].thread.created
      /\ Succeeded(r) => req[r].response.threadId = NewThread(r).id

C6_Witness ==
  \E r \in Requests :
    EmptyThreadId(r) /\ Succeeded(r) /\ req[r].calls["threadsCreate"] = 1

\* C7 (as claimed): when threads.retrieve of a supplied identifier fails the
\* request calls threads.create and is not ended by that failure.
ResumeFailed(r) ==
  /\ req[r].calls["threadsRetrieve"] = 1
  /\ req[r].pc # "threadsRetrieve"
  /\ ~req[r].resumed

C7_FallbackOnResumeFailure ==
  \A r \in Requests :
    ResumeFailed(r) =>
      /\ req[r].calls["threadsCreate"] >= 1
      /\ req[r].err # "threads.retrieve failed"

\* C8: a request issues at most one run creation, none before the user
\* message was added and exactly one once it was; every runs.retrieve and
\* submitToolOutputs targets the run that creation returned, and that run is
\* the one the response names.
AfterMessage ==
  {"runsCreate", "sleep", "runsRetrieve", "toolCalls", "submitToolOutputs",
   "runsRetrieveAfter", "messagesList"}

C8_OneRunPerRequest ==
  \A r \in Requests :
    /\ req[r].calls["runsCreate"] <= 1
    /\ req[r].calls["runsCreate"] <= req[r].calls["messagesCreate"]
    /\ req[r].calls["messagesCreate"] <= 1
    /\ (req[r].pc \in AfterMessage \/ Succeeded(r)) => req[r].calls["runsCreate"] = 1
    /\ req[r].run = NoRun => req[r].runTargets = {}
    /\ req[r].run # NoRun => req[r].runTargets \subseteq {req[r].run.id}
    /\ Succeeded(r) => req[r].response.runId = req[r].run.id

C8_Witness ==
  \E r \in Requests :
    /\ Succeeded(r)
    /\ req[r].calls["submitToolOutputs"] = 1
    /\ req[r].runTargets = {req[r].response.runId}

\* C9 (as claimed): the messages field of a success response has one element;
\* when the thread has assistant messages and the most recent of them (by
\* created_at) start with a text segment, it is the text of one of those.
Assistant(list) == {i \in 1..Len(list) : list[i].role = "assistant"}

LatestAssistant(list) ==
  {i \in Assistant(list) :
     \A j \in Assistant(list) : list[j].created_at <= list[i].created_at}

StartsWithText(m) == m.content # <<>> /\ "text" \in DOMAIN m.content[1]

C9_LatestAssistantText ==
  \A r \in Requests :
    Succeeded(r) =>
      LET list == req[r].response.allMessages
          latest == LatestAssistant(list)
      IN /\ Len(req[r].response.messages) = 1
         /\ (latest # {} /\ \A i \in latest : StartsWithText(list[i]))
              => \E i \in latest : req[r].response.messages[1] = list[i].content[1].text

\* C10 (as claimed): when the listed thread has no assistant message with a
\* text segment (an empty list included), the single element of messages is
\* the placeholder or the empty string, in a success response.
HasText(m) == \E k \in 1..Len(m.content) : "text" \in DOMAIN m.content[k]

NoAssistantText(list) == \A i \in Assistant(list) : ~HasText(list[i])

C10_PlaceholderWithoutAssistantText ==
  \A r \in Requests :
    (Done(r) /\ req[r].err = None) =>
      /\ Succeeded(r)
      /\ NoAssistantText(req[r].response.allMessages)
           => req[r].response.messages \in {<<PLACEHOLDER>>, <<"">>}

\* C11: no execution of the handler ends by throwing: a request is always at
\* one of the awaits of the handler or has returned, and a request that has
\* returned after a failure (of whatever step) has returned the JSON error
\* object, never the success object and never nothing.
HandlerPcs ==
  {"idle", "fetchKey", "lockWait", "cancelWait", "sleep", "toolCalls",
   "runsRetrieveAfter", "done"} \cup CallNames

ErrorObject == [kind |-> "error", error |-> GENERIC_ERROR]

C11_EveryFailureReturnsErrorObject ==
  \A r \in Requests :
    /\ req[r].pc \in HandlerPcs
    /\ req[r].err # None => Done(r) /\ req[r].response = ErrorObject
    /\ Done(r) => (req[r].err # None \/ Succeeded(r))

C11_Witness ==
  \E r \in Requests :
    /\ req[r].err = ToolError("submitToolOutputs failed")
    /\ req[r].response = ErrorObject

\* C12 (as claimed): the response of a request that ended on the deadline
\* differs from the response the handler returns for any other failure.
OtherFailures ==
  {"API key not found", "Failed to retrieve or create thread",
   "threads.retrieve failed", ToolError("Tool calls timeout")}

C12_TimeoutReportedDistinctly ==
  \A r \in Requests :
    TimedOut(r) =>
      \A msg \in OtherFailures : req[r].response # Fail(req[r], msg).response

\* C13: a tool call whose arguments do not parse or whose POST fails resolves
\* to an error payload under its own identifier; every other call of the
\* batch keeps the output of its own outcome; and no request ends because a
\* tool call failed (a batch ends in failure only through its 10 s timer).
ErrorPayloads == {"Failed to process tool call", "Failed to process report"}

C13_ToolFailureRecoveredPerCall ==
  \A r \in Requests :
    /\ Submitting(r) =>
         \A i \in 1..Len(req[r].toolCalls) :
           /\ i \in DOMAIN req[r].toolOutputs
           /\ req[r].toolOutputs[i].tool_call_id = req[r].toolCalls[i]
           /\ req[r].settled[i] = "ok" => req[r].toolOutputs[i].output = "response.data"
           /\ req[r].settled[i] \in {"parseError", "postError"}
                => req[r].toolOutputs[i].output \in ErrorPayloads
    /\ req[r].pc = "toolCalls" => ~Done(r) /\ req[r].err = None
    /\ req[r].err # ToolError("tool call rejected")

C13_Witness ==
  \E r \in Requests :
    /\ Submitting(r)
    /\ req[r].settled = <<"parseError", "ok">>
    /\ req[r].toolOutputs[1].output \in ErrorPayloads
    /\ req[r].toolOutputs[2].output = "response.data"

\* C14: a batch of tool calls is left in one of two ways only: every call has
\* settled and one submission with one output per call is issued, or the
\* 10 s timer fired first and the request returns the error object without
\* issuing any call; no submission is ever issued with a call still pending.
AllSettled(q) == \A i \in 1..Len(q.settled) : q.settled[i] # "pending"

BatchSubmitted(r) ==
  /\ req'[r].pc = "submitToolOutputs"
  /\ AllSettled(req'[r])
  /\ Len(req'[r].toolOutputs) = Len(req[r].toolCalls)

BatchTimedOut(r) ==
  /\ req'[r].pc = "done"
  /\ req'[r].response = ErrorObject
  /\ req'[r].err = ToolError("Tool calls timeout")
  /\ req'[r].calls = req[r].calls
  /\ req[r].submits = 0

C14_BatchTimeoutSubmitsNothing ==
  /\ [](\A r \in Requests : Submitting(r) => AllSettled(req[r]))
  /\ [][\A r \in Requests :
          (req[r].pc = "toolCalls" /\ req'[r].pc # "toolCalls")
            => BatchSubmitted(r) \/ BatchTimedOut(r)]_vars

C14_Witness ==
  \E r \in Requests :
    /\ Errored(r)
    /\ req[r].err = ToolError("Tool calls timeout")
    /\ req[r].calls["submitToolOutputs"] = 0

\* C15 (as claimed): a status request that returns requires_action is followed at once by
\* the tool-call processing of checkRunStatus for the same run (in part_003,
\* whose loop polls by itself, by the call of checkRunStatus), with no sleep
\* and no other poll in between: pending calls are dispatched as one batch.
\* After a submission the run is retrieved again and the loop goes on with
\* the same run: it sleeps and polls while the run is active and the deadline
\* has not passed, lists the messages when the run is terminal, and ends
\* otherwise only on the deadline or on a failed call.
ObservesRequiresAction(r) ==
  /\ req[r].pc = "runsRetrieve"
  /\ req'[r].run.status = "requires_action"
  /\ req'[r].err # "runs.retrieve failed"

Dispatches(r) ==
  IF ~req[r].inCheck
  THEN req'[r].pc = "runsRetrieve" /\ req'[r].inCheck
  ELSE IF req'[r].pc = "done"
  THEN req'[r].err = "Operation timeout" /\ req'[r].calls = req[r].calls
  ELSE \/ /\ req'[r].pc = "toolCalls"
          /\ req'[r].toolCalls # <<>>
          /\ \A i \in 1..Len(req'[r].settled) : req'[r].settled[i] = "pending"
       \/ /\ req'[r].toolCalls = <<>>
          /\ req'[r].pc \in {"sleep", "submitToolOutputs"}

ContinuesPolling(r) ==
  /\ req'[r].run.id = req[r].run.id
  /\ req'[r].pc \in {"sleep", "messagesList", "done"}
  /\ req'[r].pc = "sleep" =>
       /\ req'[r].run.status \in ACTIVE
       /\ Timed(rev) => req'[r].elapsed <= Timeout(rev)
  /\ req'[r].pc = "messagesList" => req'[r].run.status \in TERMINAL
  /\ req'[r].pc = "done" =>
       req'[r].err \in {"Operation timeout", ToolError("runs.retrieve failed")}

C15_DispatchThenContinuePolling ==
  [][\A r \in Requests :
       /\ ObservesRequiresAction(r) => Dispatches(r)
       /\ (req[r].pc = "submitToolOutputs" /\ req'[r].pc # "submitToolOutputs")
            => \/ req'[r].pc = "runsRetrieveAfter" /\ req'[r].run = req[r].run
               \/ req'[r].err = ToolError("submitToolOutputs failed")
       /\ (req[r].pc = "runsRetrieveAfter" /\ req'[r].pc # "runsRetrieveAfter")
            => ContinuesPolling(r)
       /\ (req[r].pc = "sleep" /\ req'[r].pc # "sleep")
            => req'[r].pc = "runsRetrieve" /\ req'[r].run = req[r].run]_vars

\* C16: the loop body is entered only with an active run and the messages
\* are listed only with a terminal one; when the loop is handed a run in a
\* terminal status, whichever it is, the next step is the listing of the
\* messages, with no further sleep or poll (checkRunStatus hands the run to
\* the loop unless its own deadline test throws; part_000 checks the run
\* once before its loop); once the messages are listed the response is the
\* success object, its status the terminal status of the run.  No terminal
\* status is turned into an error.
TerminalObserved(r) ==
  /\ req'[r].run.status \in TERMINAL
  /\ req'[r].run # req[r].run

Step(q) ==
  CASE q.pc = "idle" -> 0
    [] q.pc = "fetchKey" -> 1
    [] q.pc \in {"lockWait", "threadsRetrieve", "threadsCreate", "runsList",
                 "runsCancel", "cancelWait"} -> 2
    [] q.pc = "messagesCreate" -> 3
    [] q.pc = "runsCreate" -> 4
    [] q.pc \in {"sleep", "runsRetrieve", "toolCalls", "submitToolOutputs",
                 "runsRetrieveAfter"} -> 5
    [] q.pc = "messagesList" -> 6
    [] q.pc = "done" -> 7

Issued(r, c) == req[r].calls[c] >= 1
Returned(r, c) == Issued(r, c) /\ req[r].pc # c

C17_StepsInOrder ==
  /\ [](\A r \in Requests :
          /\ req[r].lookups = IF req[r].pc = "idle" THEN 0 ELSE 1
          /\ ~NoCalls(r) => req[r].keyOutcome = "ok"
          /\ Issued(r, "messagesCreate") => req[r].thread # NoThread
          /\ Issued(r, "runsCreate") =>
               req[r].calls["messagesCreate"] = 1 /\ req[r].pc # "messagesCreate"
          /\ (Issued(r, "runsRetrieve") \/ Issued(r, "submitToolOutputs")) =>
               Returned(r, "runsCreate")
          /\ Issued(r, "messagesList") =>
               Returned(r, "runsCreate") /\ req[r].run.status \in TERMINAL)
  /\ [][\A r \in Requests : Step(req'[r]) >= Step(req[r])]_vars

C17_Witness ==
  \E r \in Requests :
    /\ Succeeded(r)
    /\ req[r].lookups = 1
    /\ \A c \in {"threadsCreate", "messagesCreate", "runsCreate", "runsRetrieve",
                  "submitToolOutputs", "messagesList"} : Issued(r, c)

\* C18: a request that waits in the lock loop eventually holds the lock, and
\* a request that holds it eventually leaves getThreadWithLock with a thread
\* or with the error of the thread resolution: no request stays in the lock
\* loop forever.
Waiting(r) == req[r].pc = "lockWait"

Resolved(r) ==
  /\ ~req[r].holdsLock
  /\ \/ req[r].pc = "messagesCreate" /\ req[r].thread # NoThread
     \/ req[r].err = "Failed to retrieve or create thread"

C18_WaiterEventuallyProceeds ==
  \A r \in Requests :
    /\ Waiting(r) ~> req[r].holdsLock
    /\ req[r].holdsLock ~> Resolved(r)

C18_Witness ==
  \E r1, r2 \in Requests :
    /\ r1 # r2
    /\ req[r1].assistantId = req[r2].assistantId
    /\ Resolved(r1)
    /\ req[r2].lockWaits > 0
    /\ req[r2].holdsLock

\* C19: the step that raises the deadline error ends the request and issues
\* no call; a request that has returned issues nothing more; and
\* runs.cancel is never issued by a request that has created its run, so
\* the run of a request that timed out was neither cancelled nor, from the
\* timeout on, polled or given tool outputs.
RaisesTimeout(r) == req[r].err = None /\ req'[r].err = "Operation timeout"

C19_TimeoutLeavesRunUntouched ==
  [][\A r \in Requests :
       /\ RaisesTimeout(r) =>
            /\ req'[r].pc = "done"
            /\ req'[r].calls = req[r].calls
            /\ req'[r].run.id = req[r].run.id
       /\ Done(r) => req'[r] = req[r]
       /\ req'[r].calls["runsCancel"] # req[r].calls["runsCancel"]
            => req[r].run = NoRun
       /\ req'[r].pc = "runsCancel" => req[r].run = NoRun]_vars

C19_Witness ==
  \E r \in Requests :
    /\ TimedOut(r)
    /\ rev = "main"
    /\ req[r].run.status = "requires_action"
    /\ req[r].calls["submitToolOutputs"] = 1
    /\ req[r].calls["runsCancel"] = 0

\* C20: in part_003, after runs.cancel has returned the runs are listed at
\* most CANCEL_ATTEMPTS times, one second apart.  A listing without an
\* active run ends the wait and the request goes on with the resumed thread,
\* having created none; the last listing, if it still shows an active run,
\* and a failure of runs.cancel or of a listing, lead to threads.create and
\* never end the request.
InCancelLoop(q) == q.site = "retry" /\ q.pc \in {"cancelWait", "runsList"}

Listings(q) == IF q.pc = "runsList" THEN q.tries + 1 ELSE q.tries

Leaves(r, pc) == req[r].pc = pc /\ req'[r].pc # pc

C20_CancellationWaitIsBounded ==
  /\ [](\A r \in Requests :
          /\ req[r].tries <= CANCEL_ATTEMPTS
          /\ InCancelLoop(req[r]) =>
               /\ rev = "part_003"
               /\ Listings(req[r]) <= CANCEL_ATTEMPTS
               /\ req[r].calls["runsCancel"] = 1
               /\ req[r].calls["threadsCreate"] = 0
          /\ (req[r].calls["runsCancel"] = 1 /\ req[r].pc = "messagesCreate") =>
               /\ ~req[r].thread.created => req[r].tries < CANCEL_ATTEMPTS
               /\ req[r].tries = CANCEL_ATTEMPTS => req[r].thread = NewThread(r))
  /\ [][\A r \in Requests :
          /\ Leaves(r, "runsCancel") =>
               \/ InCancelLoop(req'[r]) /\ req'[r].tries = 0
               \/ req'[r].pc = "threadsCreate"
          /\ (InCancelLoop(req[r]) /\ Leaves(r, "cancelWait")) =>
               /\ req'[r].pc = "runsList"
               /\ req'[r].elapsed = req[r].elapsed + 1000
          /\ (InCancelLoop(req[r]) /\ Leaves(r, "runsList")) =>
               \/ /\ req'[r].pc = "messagesCreate"
                  /\ req'[r].thread = [id |-> req[r].threadId, created |-> FALSE]
                  /\ req'[r].calls["threadsCreate"] = 0
               \/ /\ req'[r].pc = "cancelWait"
                  /\ req'[r].tries = req[r].tries + 1
               \/ req'[r].pc = "threadsCreate"
          /\ (InCancelLoop(req[r]) /\ req'[r].tries = CANCEL_ATTEMPTS)
               => req'[r].pc = "threadsCreate"]_vars

C20_Witness ==
  \E r \in Requests :
    /\ rev = "part_003"
    /\ req[r].pc = "messagesCreate"
    /\ req[r].calls["runsCancel"] = 1
    /\ req[r].tries = CANCEL_ATTEMPTS
    /\ req[r].thread = NewThread(r)

\* C21: a request holds the lock only while it awaits threads.retrieve or
\* threads.create inside getThreadWithLock.  From messages.create on (the
\* user message, the run, the polls, the tool calls, the listing) it holds
\* no lock, and its assistant key is in threadLocks only if another request
\* is resolving its thread.
InResolution(r) == req[r].pc \in {"threadsRetrieve", "threadsCreate"}

PastResolution(r) == Step(req[r]) >= 3

HeldByOther(r) ==
  \E o \in Requests \ {r} :
    req[o].holdsLock /\ req[o].assistantId = req[r].assistantId

C21_LockOnlyDuringResolution ==
  \A r \in Requests :
    /\ req[r].holdsLock => InResolution(r)
    /\ PastResolution(r) =>
         /\ ~req[r].holdsLock
         /\ req[r].assistantId \in threadLocks => HeldByOther(r)

\* two requests of one assistant drive a run on the same resumed thread at
\* the same time, and nobody holds a lock
C21_Witness ==
  \E r1, r2 \in Requests :
    /\ r1 # r2
    /\ req[r1].assistantId = req[r2].assistantId
    /\ req[r1].thread.id = <<"t">> /\ req[r2].thread.id = <<"t">>
    /\ req[r1].pc = "messagesList" /\ req[r2].pc = "runsCreate"
    /\ req[r1].run # NoRun
    /\ threadLocks = {}

\* C22: threadLocks holds exactly the assistant keys of the requests that
\* are between threadLocks.add and the finally of getThreadWithLock: a key
\* is removed on every way out (thread retrieved, thread created, creation
\* failed), and the set is empty when no request is resolving its thread.
Holders == {r \in Requests : InResolution(r)}

C22_LockReleasedOnEveryExit ==
  /\ threadLocks = {req[r].assistantId : r \in Holders}
  /\ \A r \in Requests : req[r].holdsLock <=> r \in Holders
  /\ Holders = {} => threadLocks = {}

C22_Witness ==
  \E r1, r2 \in Requests :
    /\ r1 # r2
    /\ req[r1].err = "Failed to retrieve or create thread"
    /\ req[r2].pc = "messagesCreate" /\ req[r2].thread.created
    /\ req[r1].assistantId = req[r2].assistantId
    /\ req[r2].lockWaits > 0
    /\ threadLocks = {}

\* C23 (as claimed): a status request that returns the run in a terminal
\* status while the elapsed time is within the deadline is followed by the
\* listing of the messages (and so, by C16, by the success response with
\* that status); and no request whose run was seen completed has ended
\* with the timeout error.
PollObservesTerminal(r) ==
  /\ req[r].pc \in {"runsRetrieve", "runsRetrieveAfter"}
  /\ req'[r].pc # req[r].pc
  /\ req'[r].run.status \in TERMINAL
  /\ req'[r].err \notin {"runs.retrieve failed", ToolError("runs.retrieve failed")}

C23_TerminalWithinDeadlineSucceeds ==
  /\ [][\A r \in Requests :
          (PollObservesTerminal(r) /\ req'[r].elapsed <= Timeout(rev))
            => req'[r].pc = "messagesList"]_vars
  /\ [](\A r \in Requests : TimedOut(r) => req[r].run.status # "completed")

\* C24: in message.controller.ts, tool outputs are submitted only as the
\* next call after a runs.retrieve of checkRunStatus that returned
\* requires_action with at least one pending tool call, once the batch of
\* those calls has settled.  When the run is returned in requires_action
\* without pending call, no call is issued: the handler sleeps and polls
\* again, or ends on the deadline.
StartsBatch(r) == req[r].pc # "toolCalls" /\ req'[r].pc = "toolCalls"

StartsSubmission(r) ==
  req[r].pc # "submitToolOutputs" /\ req'[r].pc = "submitToolOutputs"

NothingToDispatch(r) ==
  /\ req[r].pc = "runsRetrieve" /\ req'[r].pc # "runsRetrieve"
  /\ req'[r].run.status = "requires_action"
  /\ req'[r].toolCalls = <<>>
  /\ req'[r].err # "runs.retrieve failed"

C24_SubmitOnlyPendingCalls ==
  /\ [](\A r \in Requests :
          (rev = "main" /\ Submitting(r)) =>
            /\ req[r].run.status = "requires_action"
            /\ Len(req[r].toolCalls) >= 1
            /\ Len(req[r].toolOutputs) = Len(req[r].toolCalls))
  /\ [][rev = "main" =>
          \A r \in Requests :
            /\ StartsBatch(r) =>
                 /\ req[r].pc = "runsRetrieve" /\ req[r].inCheck
                 /\ req'[r].run.status = "requires_action"
                 /\ Len(req'[r].toolCalls) >= 1
            /\ StartsSubmission(r) =>
                 /\ req[r].pc = "toolCalls"
                 /\ req'[r].toolCalls = req[r].toolCalls
                 /\ req'[r].run = req[r].run
            /\ NothingToDispatch(r) =>
                 /\ req'[r].calls = req[r].calls
                 /\ \/ req'[r].pc = "sleep"
                    \/ req'[r].pc = "done" /\ req'[r].err = "Operation timeout"]_vars

C24_Witness ==
  \E r \in Requests :
    /\ rev = "main"
    /\ req[r].pc = "sleep"
    /\ req[r].run.status = "requires_action"
    /\ req[r].toolCalls = <<>>
    /\ req[r].calls["runsRetrieve"] = 1
    /\ req[r].calls["submitToolOutputs"] = 0

\* C25: in part_003 a request that goes on to add its message and create
\* its run does so on a thread it has created itself, or on the resumed
\* thread after a listing of its runs, the last one it made, that contained
\* no queued, in_progress or requires_action run.
NoActiveRun(runs) == \A i \in 1..Len(runs) : runs[i] \notin ACTIVE

OnResumedThread(r) ==
  /\ req[r].resumed
  /\ req[r].thread = [id |-> req[r].threadId, created |-> FALSE]

C25_RunOnlyWithoutActiveRun ==
  \A r \in Requests :
    (rev = "part_003" /\ req[r].pc \in {"messagesCreate", "runsCreate"}) =>
      \/ req[r].thread = NewThread(r)
      \/ /\ OnResumedThread(r)
         /\ req[r].calls["runsList"] = 1
         /\ NoActiveRun(req[r].listed)

C25_Witness ==
  \E r \in Requests :
    /\ rev = "part_003"
    /\ req[r].pc = "runsCreate"
    /\ OnResumedThread(r)
    /\ req[r].calls["runsCancel"] = 1
    /\ req[r].tries > 0
    /\ req[r].listed = <<"completed", "failed">>

\* C26: a request goes into the 100 ms wait of the lock loop, or back into
\* it, only at a moment when another request with the same assistantId is
\* between threadLocks.add and threadLocks.delete; locks held for other
\* assistants never make it wait.
EntersWait(r) == req'[r] # req[r] /\ req'[r].pc = "lockWait"

C26_WaitsOnlyForSameAssistant ==
  [][\A r \in Requests : EntersWait(r) => HeldByOther(r)]_vars

C26_Witness ==
  \E r1, r2 \in Requests :
    /\ req[r1].holdsLock /\ req[r2].holdsLock
    /\ req[r1].assistantId # req[r2].assistantId
    /\ req[r2].lockWaits = 0
    /\ req[r2].elapsed = 0

====
